---- MODULE Spec2Model ----
(***************************************************************************)
(* Sphere-tracing renderer of raymarching.py: get_sdf / get_normals (the   *)
(* batched oracle adapter), get_shadows (the shadow marching pass) and     *)
(* get_image (primary marching pass, shading, ground plane, compositing).  *)
(*                                                                         *)
(* Geometry is kept exact on an integer grid: the model works in the       *)
(* vertical slice through the camera, a position is a pair <<x, y>> (y is  *)
(* the height, numpy column 1), a direction is an integer vector whose     *)
(* length is DirScale (so the unit direction is v / DirScale), and an      *)
(* oracle distance d is counted in steps of DirScale grid units, which     *)
(* makes "position += direction * d" the integer update p + v * d.         *)
(* The oracle (sdf_net) is external: each call draws its outputs from a    *)
(* small set of distances.                                                 *)
(***************************************************************************)
EXTENDS Integers, Sequences, FiniteSets, TLC

\* ---------------------------------------------------------------- bounds

\* rays of a render: (resolution * ssaa)^2 ranges over 0..NumRays
NumRays == 4
\* get_image's iterations parameter (1000 by default)
Iterations == 2
\* range(200) of the shadow loop
ShadowIterations == 2
\* BATCH_SIZE = 100000
BATCH_SIZE == 2
\* largest request of the adapter taken on its own
MaxRequest == 5

\* ------------------------------------------------ configuration (scaled)

\* length of a direction vector on the grid
DirScale == 5
\* get_image's radius (1 by default), in grid units
Radius == 85
\* get_shadows' default radius (1.0), used for the ground points
ShadowRadius == 85
\* the step clamps 0.02 and 0.1, in distance steps
Clamp == 20
ShadowClamp == 30
\* get_shadows' threshold (0.001); get_image never overrides it
ShadowThreshold == 2
\* the offset 0.1 along the shadow ray, in distance steps
ShadowBias == 2
\* the horizontal limit 3 of the ground points, in grid units
GroundLimit == 255

\* get_image's threshold: its default (0.0005, below the step clamp) ...
DefaultThresholds == {2}

\* ... and what a caller may pass, a threshold above the step clamp included
ConfiguredThresholds == {2, 25}

\* what the oracle may answer for a point: on the surface or inside (0), just
\* outside (1), far outside (40)
SdfValues == {0, 1, 40}

NormalValues == {0, 1}

\* camera and light of get_default_coordinates, in the plane of the slice
camera_position == <<-125, 0>>

light_position == <<-328, 391>>

\* the directions of the screen samples, in ray order: two that miss the
\* bounding sphere (the first pointing down), three that enter it
ScreenDirs == << <<3, -4>>, <<4, -3>>, <<4, 3>>, <<5, 0>>, <<3, 4>> >>

\* what get_shadows hands back: None, or an array of booleans
None == [kind |-> "None", value |-> << >>]

Array(a) == [kind |-> "array", value |-> a]

NotCalled == [kind |-> "unset", value |-> << >>]

\* a float that is not finite
NaN == [finite |-> FALSE, value |-> 0]

\* --------------------------------------------------------------- helpers

Min(a, b) == IF a < b THEN a ELSE b

Add(p, q) == <<p[1] + q[1], p[2] + q[2]>>

Sub(p, q) == <<p[1] - q[1], p[2] - q[2]>>

Scale(v, k) == <<v[1] * k, v[2] * k>>

Dot(p, q) == p[1] * q[1] + p[2] * q[2]

Norm2(p) == Dot(p, p)

Range(s) == {s[k] : k \in 1..Len(s)}

RECURSIVE SqrtBetween(_, _, _)
SqrtBetween(n, lo, hi) ==
    IF lo >= hi THEN lo
    ELSE LET mid == (lo + hi + 1) \div 2
         IN IF mid * mid <= n THEN SqrtBetween(n, mid, hi)
            ELSE SqrtBetween(n, lo, mid - 1)

RECURSIVE SqrtUpper(_, _)
SqrtUpper(n, k) == IF k * k > n THEN k ELSE SqrtUpper(n, 2 * k)

\* the integer part of the square root of n >= 0
Sqrt(n) == SqrtBetween(n, 0, SqrtUpper(n, 1))

\* torch.clamp_(sdf, -m, m)
ClampSeq(s, m) ==
    [k \in 1..Len(s) |-> IF s[k] < -m THEN -m ELSE IF s[k] > m THEN m ELSE s[k]]

\* seq[mask] for a boolean mask aligned with seq
RECURSIVE MaskFrom(_, _, _)
MaskFrom(s, mask, k) ==
    IF k > Len(s) THEN << >>
    ELSE IF mask[k] THEN <<s[k]>> \o MaskFrom(s, mask, k + 1)
         ELSE MaskFrom(s, mask, k + 1)

MaskSelect(s, mask) == MaskFrom(s, mask, 1)

NotMask(mask) == [k \in 1..Len(mask) |-> ~mask[k]]

\* seq[a:b] (Python slice, 0-based, end exclusive, clipped to the length)
Slice(s, a, b) ==
    LET lo == Min(a, Len(s))
        hi == Min(b, Len(s))
    IN  IF hi <= lo THEN << >> ELSE SubSeq(s, lo + 1, hi)

\* result[a:a+len(vals)] = vals (the oracle answers with one value per point,
\* so the slice and the values have the same length)
AssignSlice(res, a, vals) ==
    [k \in 1..Len(res) |->
        IF k > a /\ k <= a + Len(vals) THEN vals[k - a] ELSE res[k]]

Zeros(m) == [k \in 1..m |-> 0]

\* ------------------------------------------------ oracle adapter (get_sdf)

\* sdf_net.forward / sdf_net.get_normals on one sub-batch: one output per point
Forward(oracle, pts) == [k \in 1..Len(pts) |-> oracle[pts[k]]]

\* faulty variant: the slice forgotten, the whole matrix is passed
LatentSliceWhole(rows, k) == rows

\* latent_codes[:k, :] of a matrix with `rows` rows: its number of rows
LatentSlice(rows, k) == Min(rows, k)

\* faulty variant: the offset of sub-batch i, off by one
BatchStartShifted(i) == BATCH_SIZE * i + 1

\* BATCH_SIZE * i: the offset of sub-batch i

BatchStart(i) == BATCH_SIZE * i

\* one oracle call as the adapter issues it
OracleCall(kind, pts, rows, oracle) ==
    [kind |-> kind, points |-> pts, rows |-> rows, out |-> Forward(oracle, pts)]

\* result[start:start+len] = <the oracle's output>, with the call recorded
Store(acc, start, call) ==
    [result |-> AssignSlice(acc.result, start, call.out),
     calls |-> Append(acc.calls, call)]

\* the loop "for i in range(batch_count)" of get_sdf, from iteration i on
RECURSIVE SdfLoop(_, _, _, _, _)
SdfLoop(points_, latent_rows_, oracle, i, acc) ==
    IF i >= Len(points_) \div BATCH_SIZE THEN acc
    ELSE SdfLoop(points_, latent_rows_, oracle, i + 1,
                 Store(acc, BatchStart(i),
                       OracleCall("sdf", Slice(points_, BatchStart(i), BatchStart(i + 1)),
                                  LatentSlice(latent_rows_, BATCH_SIZE), oracle)))

\* remainder = points.shape[0] - BATCH_SIZE * batch_count
Remainder(count) == count - BATCH_SIZE * (count \div BATCH_SIZE)

get_sdf(points_, latent_rows_, oracle) ==
    Store(SdfLoop(points_, latent_rows_, oracle, 0,
                  [result |-> Zeros(Len(points_)), calls |-> << >>]),
          BatchStart(Len(points_) \div BATCH_SIZE),
          OracleCall("sdf",
                     Slice(points_, BatchStart(Len(points_) \div BATCH_SIZE), Len(points_)),
                     LatentSlice(latent_rows_, Remainder(Len(points_))), oracle))

\* the loop "for i in range(batch_count)" of get_normals, from iteration i on
RECURSIVE NormalsLoop(_, _, _, _)
NormalsLoop(points_, oracle, i, acc) ==
    IF i >= Len(points_) \div BATCH_SIZE THEN acc
    ELSE NormalsLoop(points_, oracle, i + 1,
                     Store(acc, BatchStart(i),
                           OracleCall("normals",
                                      Slice(points_, BatchStart(i), BatchStart(i + 1)),
                                      1, oracle)))

get_normals(points_, oracle) ==
    Store(NormalsLoop(points_, oracle, 0,
                      [result |-> Zeros(Len(points_)), calls |-> << >>]),
          BatchStart(Len(points_) \div BATCH_SIZE),
          OracleCall("normals",
                     Slice(points_, BatchStart(Len(points_) \div BATCH_SIZE), Len(points_)),
                     1, oracle))

\* ------------------------------------------------------------------ state

VARIABLES
    pc,            \* position in get_image / get_shadows
    n,             \* number of rays ((resolution * ssaa)^2)
    threshold,     \* get_image's threshold parameter
    points,        \* get_image: points[r], one position per ray
    indices,       \* get_image: the ActiveSet of the primary pass
    model_mask,    \* get_image: model_mask[r] in {0, 1}
    latent_rows,   \* get_image: rows of latent_codes
    i,             \* get_image: iterations of the primary loop completed
    ground_points, \* get_image: ray ids of the ground points kept
    seen_by_light, \* get_image: 1.0 - shadows of the model points
    pixels,        \* get_image: pixels[r]
    s_for,         \* which call of get_shadows is running
    s_points,      \* get_shadows: points[k]
    s_dirs,        \* get_shadows: ray_directions_t[k]
    s_indices,     \* get_shadows: the ActiveSet of the shadow pass
    shadows,       \* get_shadows: shadows[k] in {0, 1}
    s_latent_rows, \* get_shadows: rows of latent_codes
    s_radius,      \* get_shadows: radius
    s_i,           \* get_shadows: iterations of the shadow loop completed
    s_ret,         \* what get_shadows returned
    adapter,       \* the latest get_sdf / get_normals call: request, result, calls
    last,          \* the latest marching iteration: who was active, hit, missed
    hist           \* history of the run: removed rays, queried rays, counters

vars == <<pc, n, threshold, points, indices, model_mask, latent_rows, i,
          ground_points, seen_by_light, pixels, s_for, s_points, s_dirs,
          s_indices, shadows, s_latent_rows, s_radius, s_i, s_ret, adapter,
          last, hist>>

\* the largest distance the oracle returns in this model
Big == CHOOSE d \in SdfValues : \A e \in SdfValues : e <= d

\* ----------------------------------------------- get_image, lines 91-126

Rays == 1..n

ray_directions(r) == ScreenDirs[((r - 1) % Len(ScreenDirs)) + 1]

\* (-b - sqrt(b^2 - 4c)) / 2; the square root of a negative number is nan
distance_to_sphere(dv) ==
    LET b == (2 * Dot(camera_position, dv)) \div DirScale
        c == Norm2(camera_position) - Radius * Radius
        disc == b * b - 4 * c
    IN  IF disc < 0 THEN NaN ELSE [finite |-> TRUE, value |-> (0 - b - Sqrt(disc)) \div 2]

isfinite(d) == d.finite

\* faulty variant: every ray, finite distance or not
AllIndices(m) == [r \in 1..m |-> r]

\* np.argwhere(np.isfinite(distance_to_sphere))
InitialIndices(m) ==
    MaskSelect([r \in 1..m |-> r],
               [r \in 1..m |-> isfinite(distance_to_sphere(ray_directions(r)))])

\* points[indices] += ray_directions[indices] * distance_to_sphere[indices]
InitialPoints(m) ==
    [r \in 1..m |->
        LET dv == ray_directions(r)
            d == distance_to_sphere(dv)
        IN  IF isfinite(d)
            THEN <<camera_position[1] + (dv[1] * d.value) \div DirScale,
                   camera_position[2] + (dv[2] * d.value) \div DirScale>>
            ELSE camera_position]

\* latent_code.repeat(min(indices.shape[0], BATCH_SIZE), 1): its rows
LatentRows(count) == Min(count, BATCH_SIZE)

NoAdapter ==
    [kind |-> "none", request |-> << >>, oracle |-> << >>, result |-> << >>,
     calls |-> << >>]

NoLast == [pass |-> "none", active |-> << >>, raw |-> << >>, hits |-> {}, misses |-> {}]

InitWith(thresholds) ==
    /\ n \in 0..NumRays
    /\ threshold \in thresholds
    /\ pc = "march"
    /\ points = InitialPoints(n)
    /\ indices = InitialIndices(n)
    /\ model_mask = [r \in 1..n |-> 0]
    /\ latent_rows = LatentRows(Len(InitialIndices(n)))
    /\ i = 0
    /\ ground_points = << >>
    /\ seen_by_light = << >>
    /\ pixels = << >>
    /\ s_for = "none"
    /\ s_points = << >>
    /\ s_dirs = << >>
    /\ s_indices = << >>
    /\ shadows = << >>
    /\ s_latent_rows = 0
    /\ s_radius = 0
    /\ s_i = 0
    /\ s_ret = NotCalled
    /\ adapter = NoAdapter
    /\ last = NoLast
    /\ hist = [removed |-> {}, missed |-> {}, queried |-> {}, forced |-> {},
               sdf_calls |-> 0, start_len |-> Len(InitialIndices(n)),
               big_only |-> TRUE, hit_test |-> FALSE,
               s_removed |-> {}, s_sdf_calls |-> 0, s_start_len |-> 0]

\* ---------------------------------------------- marching step, both loops

PointSet(pts) == {pts[k] : k \in 1..Len(pts)}

\* points[indices, :]
Gather(pts, idx) == [k \in 1..Len(idx) |-> pts[idx[k]]]

\* points[indices, :] += ray_directions_t[indices, :] * sdf.unsqueeze(1)
Advance(pts, dirs, idx, sdf) ==
    [r \in DOMAIN pts |->
        IF \E k \in 1..Len(idx) : idx[k] = r
        THEN LET k == CHOOSE k \in 1..Len(idx) : idx[k] = r
             IN  Add(pts[r], Scale(dirs[r], sdf[k]))
        ELSE pts[r]]

\* hits = (sdf > 0) & (sdf < threshold)
Hits(sdf, thr) == [k \in 1..Len(sdf) |-> sdf[k] > 0 /\ sdf[k] < thr]

\* model_mask[indices[hits]] = 1, shadows[indices[hits]] = 1, model_mask[indices] = 1
MarkOnes(mask, idx) ==
    [r \in DOMAIN mask |-> IF r \in Range(idx) THEN 1 ELSE mask[r]]

\* faulty variant: the positions kept, not the ray indices at those positions
CompactPositions(idx, mask) == MaskSelect([k \in 1..Len(idx) |-> k], NotMask(mask))

\* indices = indices[~mask]
Compact(idx, mask) == MaskSelect(idx, NotMask(mask))

\* misses = torch.norm(points[indices, :], dim=1) > radius
PrimaryMisses(pts, idx) ==
    [k \in 1..Len(idx) |-> Norm2(pts[idx[k]]) > Radius * Radius]

\* misses = points[indices, 1] > radius
ShadowMisses(pts, idx, radius) == [k \in 1..Len(idx) |-> pts[idx[k]][2] > radius]

\* one iteration of "for i in tqdm(range(iterations))", lines 128-142; each
\* \E over a one-element set names the value a line of the body computes
PrimaryIteration ==
    /\ pc = "march"
    /\ \E test_points \in {Gather(points, indices)} :
       \E oracle \in [PointSet(test_points) -> SdfValues] :
       \E q \in {get_sdf(test_points, latent_rows, oracle)} :
       \E sdf \in {ClampSeq(q.result, Clamp)} :
       \E points1 \in {Advance(points, [r \in Rays |-> ray_directions(r)], indices, sdf)} :
       \E hits \in {Hits(sdf, threshold)} :
       \E hit_idx \in {MaskSelect(indices, hits)} :
       \E indices1 \in {Compact(indices, hits)} :
       \E misses \in {PrimaryMisses(points1, indices1)} :
       \E miss_idx \in {MaskSelect(indices1, misses)} :
       \E indices2 \in {Compact(indices1, misses)} :
         /\ points' = points1
         /\ model_mask' = MarkOnes(model_mask, hit_idx)
         /\ indices' = indices2
         /\ i' = i + 1
         /\ pc' = IF Len(indices2) < 2 \/ i + 1 >= Iterations
                  THEN "finish" ELSE "march"
         /\ adapter' = [kind |-> "sdf", request |-> test_points, oracle |-> oracle,
                        result |-> q.result, calls |-> q.calls]
         /\ last' = [pass |-> "primary", active |-> indices, raw |-> q.result,
                     hits |-> Range(hit_idx), misses |-> Range(miss_idx)]
         /\ hist' = [hist EXCEPT
                        !.removed = @ \cup Range(hit_idx) \cup Range(miss_idx),
                        !.missed = @ \cup Range(miss_idx),
                        !.queried = @ \cup {r \in Rays : \E c \in Range(q.calls) :
                                                points[r] \in PointSet(c.points)},
                        !.sdf_calls = @ + Len(q.calls),
                        !.big_only = @ /\ \A k \in 1..Len(q.result) : q.result[k] = Big,
                        !.hit_test = @ \/ hit_idx # << >>]
    /\ UNCHANGED <<n, threshold, latent_rows, ground_points, seen_by_light, pixels,
                   s_for, s_points, s_dirs, s_indices, shadows, s_latent_rows,
                   s_radius, s_i, s_ret>>

\* ------------------------------------------- get_shadows, lines 58-68

\* (light_position - p) / |light_position - p|, in units of 1 / DirScale
ShadowDirection(p) ==
    LET d == Sub(light_position, p)
        len == Sqrt(Norm2(d))
    IN  <<(DirScale * d[1]) \div len, (DirScale * d[2]) \div len>>

\* the locals of get_shadows when its loop is entered
ShadowEntry(pts) ==
    LET dirs == [k \in 1..Len(pts) |-> ShadowDirection(pts[k])]
    IN  [dirs |-> dirs,
         points |-> [k \in 1..Len(pts) |-> Add(pts[k], Scale(dirs[k], ShadowBias))],
         indices |-> [k \in 1..Len(pts) |-> k],
         shadows |-> Zeros(Len(pts)),
         latent_rows |-> LatentRows(Len(pts))]

\* the shadow-pass variables after the call get_shadows(pts, ..., radius)
EnterShadows(who, pts, radius) ==
    \E e \in {ShadowEntry(pts)} :
        /\ s_for' = who
        /\ s_points' = e.points
        /\ s_dirs' = e.dirs
        /\ s_indices' = e.indices
        /\ shadows' = e.shadows
        /\ s_latent_rows' = e.latent_rows
        /\ s_radius' = radius
        /\ s_i' = 0
        /\ s_ret' = NotCalled

\* --------------------------------------------- get_image, lines 144-152

\* points[model_mask]: the rays whose mask entry is set, in ray order
MaskedRays(mask) == MaskSelect([r \in DOMAIN mask |-> r], [r \in DOMAIN mask |-> mask[r] = 1])

\* faulty variant: the remaining rays left unmarked
ForceNothing(mask, idx) == mask

\* model_mask[indices] = 1
ForceHits(mask, idx) == MarkOnes(mask, idx)

\* after the primary loop: force the remaining rays, query the normals, and
\* call get_shadows on the model points
PrimaryFinish ==
    /\ pc = "finish"
    /\ \E mask \in {ForceHits(model_mask, indices)} :
       \E model_points \in {Gather(points, MaskedRays(mask))} :
           /\ model_mask' = mask
           /\ \E oracle \in [PointSet(model_points) -> NormalValues] :
                \E q \in {get_normals(model_points, oracle)} :
                    adapter' = [kind |-> "normals", request |-> model_points,
                                oracle |-> oracle, result |-> q.result, calls |-> q.calls]
           /\ EnterShadows("model", model_points, Radius)
           /\ hist' = [hist EXCEPT !.forced = Range(indices),
                                   !.s_removed = {}, !.s_sdf_calls = 0,
                                   !.s_start_len = Len(model_points)]
    /\ pc' = "shadow_loop"
    /\ last' = NoLast
    /\ UNCHANGED <<n, threshold, points, indices, latent_rows, i, ground_points,
                   seen_by_light, pixels>>

\* ------------------------------------------- get_shadows, lines 70-87

\* where get_shadows returns to
ReturnSite == IF s_for = "model" THEN "shade" ELSE "composite"

\* what "if indices.shape[0] < 2: return" hands back
EarlyReturn(sh) == None

\* one iteration of "for i in tqdm(range(200))", lines 70-84
ShadowIteration ==
    /\ pc = "shadow_loop"
    /\ \E test_points \in {Gather(s_points, s_indices)} :
       \E oracle \in [PointSet(test_points) -> SdfValues] :
       \E q \in {get_sdf(test_points, s_latent_rows, oracle)} :
       \E sdf \in {ClampSeq(q.result, ShadowClamp)} :
       \E points1 \in {Advance(s_points, s_dirs, s_indices, sdf)} :
       \E hits \in {Hits(sdf, ShadowThreshold)} :
       \E hit_idx \in {MaskSelect(s_indices, hits)} :
       \E indices1 \in {Compact(s_indices, hits)} :
       \E misses \in {ShadowMisses(points1, indices1, s_radius)} :
       \E miss_idx \in {MaskSelect(indices1, misses)} :
       \E indices2 \in {Compact(indices1, misses)} :
       \E shadows1 \in {MarkOnes(shadows, hit_idx)} :
         /\ s_points' = points1
         /\ shadows' = shadows1
         /\ s_indices' = indices2
         /\ s_i' = s_i + 1
         /\ IF Len(indices2) < 2
            THEN /\ s_ret' = EarlyReturn(shadows1)
                 /\ pc' = ReturnSite
            ELSE /\ s_ret' = s_ret
                 /\ pc' = IF s_i + 1 >= ShadowIterations
                          THEN "shadow_finish" ELSE "shadow_loop"
         /\ adapter' = [kind |-> "sdf", request |-> test_points, oracle |-> oracle,
                        result |-> q.result, calls |-> q.calls]
         /\ last' = [pass |-> "shadow", active |-> s_indices, raw |-> q.result,
                     hits |-> Range(hit_idx), misses |-> Range(miss_idx)]
         /\ hist' = [hist EXCEPT
                        !.s_removed = @ \cup Range(hit_idx) \cup Range(miss_idx),
                        !.s_sdf_calls = @ + Len(q.calls),
                        !.big_only = @ /\ \A k \in 1..Len(q.result) : q.result[k] = Big]
    /\ UNCHANGED <<n, threshold, points, indices, model_mask, latent_rows, i,
                   ground_points, seen_by_light, pixels, s_for, s_dirs,
                   s_latent_rows, s_radius>>

\* shadows.cpu().numpy().astype(bool)
AsBool(sh) == [k \in 1..Len(sh) |-> sh[k] # 0]

\* after the shadow loop, lines 86-87
ShadowFinish ==
    /\ pc = "shadow_finish"
    /\ shadows' = MarkOnes(shadows, s_indices)
    /\ s_ret' = Array(AsBool(MarkOnes(shadows, s_indices)))
    /\ pc' = ReturnSite
    /\ UNCHANGED <<n, threshold, points, indices, model_mask, latent_rows, i,
                   ground_points, seen_by_light, pixels, s_for, s_points, s_dirs,
                   s_indices, s_latent_rows, s_radius, s_i, adapter, last, hist>>

\* --------------------------------------------- get_image, lines 152-181

\* ground_points = ray_directions[:, 1] < 0; ground_points[model_mask] = 0
GroundCandidates ==
    MaskSelect([r \in Rays |-> r],
               [r \in Rays |-> ray_directions(r)[2] < 0 /\ model_mask[r] = 0])

\* np.min(model_points[:, 1])
MinHeight(rays) ==
    LET hs == {points[r][2] : r \in rays}
    IN  CHOOSE h \in hs : \A g \in hs : h <= g

\* points[r] -= ray_directions[r] * ((points[r, 1] - ground_plane) / ray_directions[r, 1])
ToGround(p, dv, ground_plane) ==
    <<p[1] + (dv[1] * (p[2] - ground_plane)) \div (0 - dv[2]), ground_plane>>

\* np.linalg.norm(points[ground_points, ::2], axis=1) < 3
NearOrigin(p) == p[1] * p[1] < GroundLimit * GroundLimit

\* 1.0 - get_shadows(...), the shading, the ground plane, and the call of
\* get_shadows on the ground points
ShadeAndGround ==
    /\ pc = "shade"
    /\ IF s_ret = None \/ MaskedRays(model_mask) = << >>
       THEN \* TypeError at line 152 (1.0 - None); ValueError at line 177 (np.min of nothing)
            /\ pc' = "error"
            /\ UNCHANGED <<points, ground_points, seen_by_light, s_for, s_points,
                           s_dirs, s_indices, shadows, s_latent_rows, s_radius, s_i,
                           s_ret, hist>>
       ELSE \E ground_plane \in {MinHeight(Range(MaskedRays(model_mask)))} :
            \E cand \in {GroundCandidates} :
            \E points1 \in {[r \in Rays |->
                               IF r \in Range(cand)
                               THEN ToGround(points[r], ray_directions(r), ground_plane)
                               ELSE points[r]]} :
            \E kept \in {MaskSelect(cand, [k \in 1..Len(cand) |->
                                               NearOrigin(points1[cand[k]])])} :
                /\ seen_by_light' = [k \in 1..Len(s_ret.value) |->
                                        IF s_ret.value[k] THEN 0 ELSE 1]
                /\ points' = points1
                /\ ground_points' = kept
                /\ EnterShadows("ground", Gather(points1, kept), ShadowRadius)
                /\ hist' = [hist EXCEPT !.s_removed = {}, !.s_sdf_calls = 0,
                                        !.s_start_len = Len(kept)]
                /\ pc' = "shadow_loop"
    /\ last' = NoLast
    /\ UNCHANGED <<n, threshold, indices, model_mask, latent_rows, i, pixels, adapter>>

\* --------------------------------------------- get_image, lines 183-186

\* ground_points[ground_shadows]: a boolean array selects, None adds an axis
\* and keeps every element
IndexBy(gp, ret) == IF ret = None THEN gp ELSE MaskSelect(gp, ret.value)

Composite ==
    /\ pc = "composite"
    /\ pixels' = [r \in Rays |->
                     IF r \in Range(IndexBy(ground_points, s_ret)) THEN "gray"
                     ELSE IF model_mask[r] = 1 THEN "shape"
                     ELSE "white"]
    /\ pc' = "done"
    /\ UNCHANGED <<n, threshold, points, indices, model_mask, latent_rows, i,
                   ground_points, seen_by_light, s_for, s_points, s_dirs, s_indices,
                   shadows, s_latent_rows, s_radius, s_i, s_ret, adapter, last, hist>>

Next ==
    \/ PrimaryIteration
    \/ PrimaryFinish
    \/ ShadowIteration
    \/ ShadowFinish
    \/ ShadeAndGround
    \/ Composite

\* get_image with its default threshold
Init == InitWith(DefaultThresholds)

Spec == Init /\ [][Next]_vars

\* get_image with any configured threshold
InitConfigured == InitWith(ConfiguredThresholds)

SpecConfigured == InitConfigured /\ [][Next]_vars

\* ------------------------------- the adapter on its own, any request size

\* a request of m distinct points
RequestOf(m) == [k \in 1..m |-> <<k, 0>>]

\* a caller about to query m points, with the shape-code matrix a pass builds
\* for an ActiveSet that started with m0 >= m rays
InitAdapter ==
    /\ \E m \in 0..MaxRequest :
         /\ adapter = [NoAdapter EXCEPT !.request = RequestOf(m)]
         /\ \E m0 \in m..MaxRequest : latent_rows = LatentRows(m0)
    /\ pc = "adapter"
    /\ n = 0
    /\ threshold \in DefaultThresholds
    /\ points = << >>
    /\ indices = << >>
    /\ model_mask = << >>
    /\ i = 0
    /\ ground_points = << >>
    /\ seen_by_light = << >>
    /\ pixels = << >>
    /\ s_for = "none"
    /\ s_points = << >>
    /\ s_dirs = << >>
    /\ s_indices = << >>
    /\ shadows = << >>
    /\ s_latent_rows = 0
    /\ s_radius = 0
    /\ s_i = 0
    /\ s_ret = NotCalled
    /\ last = NoLast
    /\ hist = [removed |-> {}, missed |-> {}, queried |-> {}, forced |-> {},
               sdf_calls |-> 0, start_len |-> 0, big_only |-> TRUE,
               hit_test |-> FALSE, s_removed |-> {}, s_sdf_calls |-> 0,
               s_start_len |-> 0]

\* get_sdf(sdf_net, request, latent_codes)
AdapterSdf ==
    /\ pc = "adapter"
    /\ \E oracle \in [PointSet(adapter.request) -> SdfValues] :
       \E q \in {get_sdf(adapter.request, latent_rows, oracle)} :
         adapter' = [kind |-> "sdf", request |-> adapter.request, oracle |-> oracle,
                     result |-> q.result, calls |-> q.calls]
    /\ pc' = "adapter_done"
    /\ UNCHANGED <<n, threshold, points, indices, model_mask, latent_rows, i,
                   ground_points, seen_by_light, pixels, s_for, s_points, s_dirs,
                   s_indices, shadows, s_latent_rows, s_radius, s_i, s_ret, last, hist>>

\* get_normals(sdf_net, request, latent_code)
AdapterNormals ==
    /\ pc = "adapter"
    /\ \E oracle \in [PointSet(adapter.request) -> NormalValues] :
       \E q \in {get_normals(adapter.request, oracle)} :
         adapter' = [kind |-> "normals", request |-> adapter.request,
                     oracle |-> oracle, result |-> q.result, calls |-> q.calls]
    /\ pc' = "adapter_done"
    /\ UNCHANGED <<n, threshold, points, indices, model_mask, latent_rows, i,
                   ground_points, seen_by_light, pixels, s_for, s_points, s_dirs,
                   s_indices, shadows, s_latent_rows, s_radius, s_i, s_ret, last, hist>>

NextAdapter == AdapterSdf \/ AdapterNormals

SpecAdapter == InitAdapter /\ [][NextAdapter]_vars

\* ------------------------------------------------------------------ claims

NonFinite(r) == ~isfinite(distance_to_sphere(ray_directions(r)))

IsGroundRay(r) == ray_directions(r)[2] < 0 /\ model_mask[r] = 0

Unique(seq) == Cardinality(Range(seq)) = Len(seq)

RECURSIVE Concat(_, _)
Concat(cs, k) == IF k > Len(cs) THEN << >> ELSE cs[k].points \o Concat(cs, k + 1)

\* C1: whenever get_shadows has returned, its result is one boolean per input
\* point, true exactly for the points classified occluded; this on every exit
\* path of the shadow loop, the early exit with fewer than 2 active rays included.
C1_ShadowsReturnOneBooleanPerPoint ==
    (pc \in {"shade", "composite"}) =>
        /\ s_ret.kind = "array"
        /\ Len(s_ret.value) = Len(s_points)
        /\ \A k \in 1..Len(s_points) : s_ret.value[k] = (shadows[k] = 1)

\* C2: when the oracle has only ever returned the large distance and no ray has
\* satisfied the hit test, get_image does not fail, no ray is classified Hit
\* once the primary pass is over, and every pixel is background or ground gray.
C2_NoHitSceneRendersNoShape ==
    (hist.big_only /\ ~hist.hit_test) =>
        /\ pc # "error"
        /\ (pc \notin {"march", "finish"} => \A r \in Rays : model_mask[r] = 0)
        /\ (pc = "done" => \A r \in Rays : pixels[r] \in {"white", "gray"})

\* C3: a marching pass runs at most maxIterations + 1 steps, and a pass whose
\* input batch is empty runs no iteration and issues no oracle distance query.
C3_PassBoundedAndIdleOnEmptyBatch ==
    /\ i <= Iterations + 1
    /\ s_i <= ShadowIterations + 1
    /\ (hist.start_len = 0 => i = 0 /\ hist.sdf_calls = 0)
    /\ (s_for # "none" /\ hist.s_start_len = 0 => s_i = 0 /\ hist.s_sdf_calls = 0)

ActiveSetInv ==
    /\ Unique(indices)
    /\ Range(indices) \subseteq Rays
    /\ Range(indices) \cap hist.removed = {}
    /\ Unique(s_indices)
    /\ Range(s_indices) \subseteq 1..Len(s_points)
    /\ Range(s_indices) \cap hist.s_removed = {}

ActiveSetStep ==
    /\ pc = "march" => Len(indices') <= Len(indices)
    /\ pc = "shadow_loop" => Len(s_indices') <= Len(s_indices)

\* C4: in every marching pass the ActiveSet holds unique, in-bounds indices, an
\* index removed as Hit or Missed is never a member again, and no iteration
\* makes the ActiveSet larger.
C4_ActiveSetOnlyShrinks == []ActiveSetInv /\ [][ActiveSetStep]_vars

C4_Witness ==
    /\ pc = "march"
    /\ i >= 1
    /\ hist.removed # {}
    /\ Len(indices) >= 2

\* C5: a primary ray whose bounding-sphere distance is not finite is never in
\* the primary ActiveSet, its position is never passed to the oracle during
\* the primary pass, and its model_mask entry stays 0.
C5_NonFiniteRaysNeverMarched ==
    \A r \in Rays :
        NonFinite(r) =>
            /\ r \notin Range(indices)
            /\ r \notin hist.queried
            /\ model_mask[r] = 0

C5_Witness ==
    /\ pc = "finish"
    /\ \E r \in Rays : NonFinite(r)
    /\ \E r \in Rays : model_mask[r] = 1
    /\ hist.sdf_calls >= 2

\* C6: the adapter passes the oracle sub-batches of at most BATCH_SIZE points,
\* the sub-batches are consecutive slices covering the request exactly once in
\* order, and result[k] is the oracle's output for request[k].
C6_AdapterBatchesAndOrder ==
    adapter.kind # "none" =>
        /\ \A c \in Range(adapter.calls) : Len(c.points) <= BATCH_SIZE
        /\ Concat(adapter.calls, 1) = adapter.request
        /\ Len(adapter.result) = Len(adapter.request)
        /\ \A k \in 1..Len(adapter.request) :
              adapter.result[k] = adapter.oracle[adapter.request[k]]

C6_Witness ==
    /\ adapter.kind = "sdf"
    /\ Len(adapter.request) > 2 * BATCH_SIZE
    /\ Len(adapter.calls) >= 3
    /\ Len(adapter.calls[Len(adapter.calls)].points) >= 1
    /\ \E k \in 1..Len(adapter.result) : adapter.result[k] # 0

\* C7: at the end of get_image a ground ray's pixel is gray exactly when its
\* ground point lies within the horizontal limit and get_shadows reported that
\* point occluded; every other ground pixel is white; no Hit pixel is gray.
C7_GrayExactlyWhenNearAndOccluded ==
    pc = "done" =>
        \A r \in Rays :
            /\ IsGroundRay(r) =>
                  /\ pixels[r] \in {"gray", "white"}
                  /\ pixels[r] = "gray" <=>
                        /\ NearOrigin(points[r])
                        /\ s_ret.kind = "array"
                        /\ \E k \in 1..Len(ground_points) :
                              ground_points[k] = r /\ s_ret.value[k]
            /\ model_mask[r] = 1 => pixels[r] # "gray"

PrimaryStopStep ==
    pc = "finish" =>
        /\ \A r \in Range(indices) : model_mask'[r] = 1
        /\ \A r \in Rays \ Range(indices) : model_mask'[r] = model_mask[r]
        /\ \A r \in hist.missed : model_mask'[r] = 0

ShadowBudgetStep ==
    pc = "shadow_finish" =>
        /\ \A k \in Range(s_indices) : shadows'[k] = 1 /\ s_ret'.value[k]
        /\ \A k \in (1..Len(s_points)) \ Range(s_indices) : shadows'[k] = shadows[k]

\* C8: the step that ends the primary pass sets model_mask to 1 for every ray
\* still active and changes no other entry (a Missed ray keeps 0); the step
\* that ends a shadow pass whose budget ran out marks every ray still active
\* as occluded.
C8_RemainingRaysForced == [][PrimaryStopStep /\ ShadowBudgetStep]_vars

C8_Witness ==
    /\ pc = "shadow_loop"
    /\ s_for = "model"
    /\ s_i = 0
    /\ Cardinality(hist.forced) = 1
    /\ i < Iterations
    /\ hist.missed # {}
    /\ \A r \in hist.forced : model_mask[r] = 1

\* C9: in an iteration an active ray is removed as Hit exactly when the
\* distance d the oracle returned satisfies 0 < d < hitThreshold; a ray that is
\* not Hit is removed as Missed exactly when its advanced position is beyond
\* the radius (primary) or above the bound (shadow); the others stay active.
C9_HitIffOracleDistanceBelowThreshold ==
    /\ last.pass = "primary" =>
          \A k \in 1..Len(last.active) :
              LET r == last.active[k]
                  d == last.raw[k]
              IN  /\ r \in last.hits <=> (0 < d /\ d < threshold)
                  /\ r \notin last.hits =>
                        (r \in last.misses <=> Norm2(points[r]) > Radius * Radius)
                  /\ r \in Range(indices) <=> r \notin (last.hits \cup last.misses)
    /\ last.pass = "shadow" =>
          \A k \in 1..Len(last.active) :
              LET r == last.active[k]
                  d == last.raw[k]
              IN  /\ r \in last.hits <=> (0 < d /\ d < ShadowThreshold)
                  /\ r \notin last.hits =>
                        (r \in last.misses <=> s_points[r][2] > s_radius)
                  /\ r \in Range(s_indices) <=> r \notin (last.hits \cup last.misses)

\* C10: in every oracle distance call of a marching pass the number of
\* shape-code rows passed equals the number of points of the sub-batch.
C10_LatentRowsMatchPoints ==
    \A c \in Range(adapter.calls) : c.kind = "sdf" => c.rows = Len(c.points)

C10_Witness ==
    /\ adapter.kind = "sdf"
    /\ last.pass = "primary"
    /\ Len(adapter.request) >= 1
    /\ Len(adapter.request) < hist.start_len
    /\ Len(adapter.calls) >= 2

====
